---------------------------- MODULE Spec2Model ----------------------------
(***************************************************************************)
(* Diagonal Sudoku solver (project_01_sudoku/sudoku.py): constraint        *)
(* propagation (eliminate, only_choice, naked_twins), the fixed-point      *)
(* loop reduce_puzzle and the depth-first search, on the 9x9 grid with 29  *)
(* units.                                                                  *)
(*                                                                         *)
(* Encoding.  A box label r+c ('A1' .. 'I9') is modelled by its index in   *)
(* the list `boxes` (row-major, 1..81); the order of the indices is the    *)
(* lexicographic order of the labels.  A row letter and a column digit are *)
(* modelled by their positions 1..9 in `rows` and `cols`.  A character of  *)
(* the grid string is a number: the digit character 'd' is d (0..9) and    *)
(* the placeholder '.' is DOT.  A candidate string such as '1379' is the   *)
(* set of its characters: every candidate string of the program is made    *)
(* from '123456789' or from one grid character by str.replace(x, ''), so   *)
(* it has no repeated character and keeps ascending order.                 *)
(***************************************************************************)
EXTENDS Integers, Sequences, FiniteSets, TLC

VARIABLES
    grid,    \* the string given to solve
    heap,    \* the dict objects: heap[ref] is the board of object ref
    stack,   \* the activations of search, the running one last
    result,  \* the value returned by the call that returned last
    last,    \* the reducer call made by the last step, with the board it got
    history, \* the module's dict `history`, written by assign_value
    game,    \* game_agent.py: the isolation.Board given to the agent
    player,  \* the IsolationPlayer object (self)
    clock,   \* the timer behind the callable time_left
    move,    \* what the last call on the agent returned
    problem, \* my_air_cargo_problems.py: the AirCargoProblem object
    state    \* the state string of the planner, as the fluents it marks T

sudoku_vars == <<grid, heap, stack, result, last, history>>

agent_vars == <<game, player, clock, move>>

cargo_vars == <<problem, state>>

vars ==
    <<grid, heap, stack, result, last, history, game, player, clock, move,
      problem, state>>

\* The value of a variable of a program that is not running.
Idle == "idle"

---------------------------------------------------------------------------
(* Topology: sudoku.py lines 2-21.                                         *)

rows == <<1, 2, 3, 4, 5, 6, 7, 8, 9>>

cols == <<1, 2, 3, 4, 5, 6, 7, 8, 9>>

\* The sequence f as a tuple of evaluated elements (the same value).
Tuple(f) == SubSeq(f, 1, Len(f))

Reverse(s) == Tuple([i \in 1..Len(s) |-> s[Len(s) + 1 - i]])

cols_rvrs == Reverse(cols)

\* The label r+c as a box: its position in the list `boxes`.
Label(r, c) == (r - 1) * Len(cols) + c

\* [x+y for x in A for y in B]
cross(A, B) ==
    Tuple([k \in 1..(Len(A) * Len(B)) |->
            Label(A[((k - 1) \div Len(B)) + 1], B[((k - 1) % Len(B)) + 1])])

boxes == cross(rows, cols)

Boxes == {boxes[k] : k \in 1..Len(boxes)}

row_units == Tuple([r \in 1..Len(rows) |-> cross(<<rows[r]>>, cols)])

column_units == Tuple([c \in 1..Len(cols) |-> cross(rows, <<cols[c]>>)])

\* ('ABC','DEF','GHI') and ('123','456','789')
Bands == <<SubSeq(rows, 1, 3), SubSeq(rows, 4, 6), SubSeq(rows, 7, 9)>>

Stacks == <<SubSeq(cols, 1, 3), SubSeq(cols, 4, 6), SubSeq(cols, 7, 9)>>

square_units ==
    Tuple([k \in 1..(Len(Bands) * Len(Stacks)) |->
            cross(Bands[((k - 1) \div Len(Stacks)) + 1],
                  Stacks[((k - 1) % Len(Stacks)) + 1])])

\* A faulty diag_units without the second diagonal.
diag_units_main_only ==
    << Tuple([i \in 1..Len(rows) |-> Label(rows[i], cols[i])]) >>

diag_units ==
    << Tuple([i \in 1..Len(rows) |-> Label(rows[i], cols[i])]),
       Tuple([i \in 1..Len(rows) |-> Label(rows[i], cols_rvrs[i])]) >>

unitlist == row_units \o column_units \o square_units \o diag_units

Range(s) == {s[i] : i \in 1..Len(s)}

\* units[box]: the units of unitlist that contain box, in unitlist order.
\* (A dict keyed by the boxes is a sequence here: the key boxes[k] is k.)
units ==
    Tuple([box \in Boxes |->
            SelectSeq(unitlist, LAMBDA unit : box \in Range(unit))])

\* A faulty peers that does not take the box itself out.
peers_with_self ==
    Tuple([box \in Boxes |->
            UNION {Range(units[box][k]) : k \in 1..Len(units[box])}])

\* peers[box] = set(sum(units[box], [])) - set([box])
peers ==
    Tuple([box \in Boxes |->
            UNION {Range(units[box][k]) : k \in 1..Len(units[box])} \ {box}])

---------------------------------------------------------------------------
(* Strings of candidate digits.                                            *)

DOT == 46

\* '123456789'
AllDigits == {1, 2, 3, 4, 5, 6, 7, 8, 9}

len(s) == Cardinality(s)

\* A faulty replace that leaves the string as it is: with it a contradiction
\* among the clues is never seen.
replace_nothing(s, old) == s

\* A faulty replace that puts the character in instead of taking it out: with
\* it candidate sets grow.
replace_adds(s, old) == s \cup old

\* s.replace(old, ''), old a string of at most one character; with old = ''
\* Python returns s unchanged.
replace(s, old) == s \ old

\* values.keys(): a board is built by grid2values or dict.copy(), so its keys
\* are in the order of `boxes` (insertion order), cut to the keys present.
keys(values) == SelectSeq(boxes, LAMBDA box : box \in DOMAIN values)

---------------------------------------------------------------------------
(* values2grid and the dict `history`, sudoku.py lines 23 and 52-73.       *)

\* The first character of a non-empty candidate string (line 321 walks the
\* string from its first character).
\* A faulty reading of a string from its last character.
last_char(s) == CHOOSE v \in s : \A w \in s : v >= w

first_char(s) == CHOOSE v \in s : \A w \in s : v <= w

\* A faulty values2grid that writes the first candidate of every box that
\* has one, solved or not.
values2grid_first(values) ==
    Tuple([k \in 1..Len(boxes) |->
            LET v == values[boxes[k]]
            IN  IF len(v) >= 1 THEN first_char(v) ELSE DOT])

\* values2grid, lines 52-73: for r in rows, for c in cols, which is the order
\* of `boxes`; the character of a box is its digit if it has exactly one
\* candidate and '.' otherwise.
values2grid(values) ==
    Tuple([k \in 1..Len(boxes) |->
            LET v == values[boxes[k]]
            IN  IF len(v) = 1 THEN first_char(v) ELSE DOT])

\* history = {} (line 23): a dict from a grid string to the pair
\* (previous grid string, (box, value)).
EmptyHistory == << >>

\* history[key] = item (line 48); a later item for the same key replaces the
\* earlier one.
SetItem(hist, key, item) == (key :> item) @@ hist

\* What a call works on: the dict `values` it is given and the module's dict
\* `history`.
Mem(values, hist) == [values |-> values, history |-> hist]

---------------------------------------------------------------------------
(* assign_value, sudoku.py lines 26-49.  The board is updated in place and *)
(* returned; an assignment of a single character that changes the board is *)
(* recorded in history under the grid string of the new board.             *)

assign_value(mem, box, value) ==
    IF mem.values[box] = value THEN mem
    ELSE LET prev == values2grid(mem.values)
             values == [mem.values EXCEPT ![box] = value]
         IN  Mem(values,
                 IF len(value) = 1
                 THEN SetItem(mem.history, values2grid(values),
                              <<prev, <<box, value>>>>)
                 ELSE mem.history)

\* The loops below run over index ranges lo..hi, first half then second half.
\* Computed(v) is true of every function or record; testing it makes TLC
\* compute the result of the first half before the second half starts (its
\* operator arguments are evaluated on demand), which keeps the evaluation
\* stack shallow.
Computed(v) == DOMAIN v = DOMAIN v

\* A Python set of boxes, walked in ascending order.  Where the program walks
\* a set, each walk below says why the order does not change the board.
Walk(S) == SelectSeq(boxes, LAMBDA box : box \in S)

peer_list == Tuple([box \in Boxes |-> Walk(peers[box])])

---------------------------------------------------------------------------
(* eliminate, sudoku.py lines 155-182.                                     *)

\* Line 173.
solved_boxes(values) == SelectSeq(keys(values), LAMBDA box : len(values[box]) = 1)

\* Lines 178-180, for the peers ps[lo..hi] in turn.  Each peer is updated
\* independently of the others, so the order of the walk over the set
\* peers[box] does not change the board.
RECURSIVE eliminate_peers(_, _, _, _, _)
eliminate_peers(mem, digit, ps, lo, hi) ==
    IF lo > hi THEN mem
    ELSE IF lo = hi
    THEN assign_value(mem, ps[lo], replace(mem.values[ps[lo]], digit))
    ELSE LET mid == (lo + hi) \div 2
             first == eliminate_peers(mem, digit, ps, lo, mid)
         IN  IF Computed(first) THEN eliminate_peers(first, digit, ps, mid + 1, hi) ELSE first

\* A faulty loop body that takes the box for one of its own peers.
eliminate_box_self(mem, box) ==
    LET first == eliminate_peers(mem, mem.values[box], peer_list[box],
                                 1, Len(peer_list[box]))
    IN  assign_value(first, box, replace(first.values[box], mem.values[box]))

\* Lines 176-180: digit is read from the board as it is now.
eliminate_box(mem, box) ==
    eliminate_peers(mem, mem.values[box], peer_list[box], 1, Len(peer_list[box]))

\* Lines 175-180, for the boxes order[lo..hi] in turn.
RECURSIVE eliminate_loop(_, _, _, _)
eliminate_loop(mem, order, lo, hi) ==
    IF lo > hi THEN mem
    ELSE IF lo = hi THEN eliminate_box(mem, order[lo])
    ELSE LET mid == (lo + hi) \div 2
             first == eliminate_loop(mem, order, lo, mid)
         IN  IF Computed(first) THEN eliminate_loop(first, order, mid + 1, hi) ELSE first

\* eliminate with the solved boxes processed in the given order.
eliminate_mem(mem, order) == eliminate_loop(mem, order, 1, Len(order))

\* The board that eliminate returns, for the given order of the solved boxes
\* and for the order of the program.
eliminate_in(values, order) == eliminate_mem(Mem(values, EmptyHistory), order).values

eliminate(values) == eliminate_in(values, solved_boxes(values))

---------------------------------------------------------------------------
(* only_choice, sudoku.py lines 185-215.                                   *)

\* A faulty step that resolves the first box of the unit instead of the box
\* found to be the only place for the digit.
only_choice_first_box(mem, unit, digit) ==
    LET dplaces == SelectSeq(unit, LAMBDA box : digit \in mem.values[box])
    IN  IF Len(dplaces) = 1
        THEN assign_value(mem, unit[1], {digit})
        ELSE mem

\* Lines 209-213 for one unit and one digit, on the board as it is now.
only_choice_step(mem, unit, digit) ==
    LET dplaces == SelectSeq(unit, LAMBDA box : digit \in mem.values[box])
    IN  IF Len(dplaces) = 1
        THEN assign_value(mem, dplaces[1], {digit})
        ELSE mem

\* for unit in unitlist: for digit in '123456789': the steps lo..hi in turn;
\* step k (from 0) is unit (k div 9) + 1 and digit (k mod 9) + 1.
RECURSIVE only_choice_loop(_, _, _)
only_choice_loop(mem, lo, hi) ==
    IF lo > hi THEN mem
    ELSE IF lo = hi
    THEN only_choice_step(mem,
                          unitlist[(lo \div Cardinality(AllDigits)) + 1],
                          (lo % Cardinality(AllDigits)) + 1)
    ELSE LET mid == (lo + hi) \div 2
             first == only_choice_loop(mem, lo, mid)
         IN  IF Computed(first) THEN only_choice_loop(first, mid + 1, hi) ELSE first

only_choice_mem(mem) ==
    only_choice_loop(mem, 0, Len(unitlist) * Cardinality(AllDigits) - 1)

\* The board that only_choice returns.
only_choice(values) == only_choice_mem(Mem(values, EmptyHistory)).values

---------------------------------------------------------------------------
(* naked_twins, sudoku.py lines 218-249 (solution.py lines 21-65).         *)

\* Line 232.
twin_candidates(values) == SelectSeq(keys(values), LAMBDA box : len(values[box]) = 2)

\* The pairs [box, peer] of one box (line 234).  peers[box] is a set: all
\* pairs of one box remove the same digits (twin_val is values[box], which
\* none of that box's pairs changes), so the order of the pairs of one box
\* does not change the board.
twins_of(values, box) ==
    LET partners == SelectSeq(peer_list[box],
                              LAMBDA peer : peer \in DOMAIN values
                                            /\ values[box] = values[peer])
    IN  [k \in 1..Len(partners) |-> <<box, partners[k]>>]

RECURSIVE twin_list(_, _, _, _)
twin_list(values, cands, lo, hi) ==
    IF lo > hi THEN << >>
    ELSE IF lo = hi THEN twins_of(values, cands[lo])
    ELSE LET mid == (lo + hi) \div 2
         IN  twin_list(values, cands, lo, mid) \o twin_list(values, cands, mid + 1, hi)

\* Line 234: the list naked_twins, found on the board as given.
naked_twins_list(values) ==
    twin_list(values, twin_candidates(values), 1, Len(twin_candidates(values)))

\* Lines 244-247 for one peer: each character v of twin_val that the peer
\* holds is removed from it by its own call of assign_value.
RECURSIVE twins_chars(_, _, _)
twins_chars(mem, peer, chars) ==
    IF chars = {} THEN mem
    ELSE LET v == first_char(chars)
             first == IF v \in mem.values[peer]
                      THEN assign_value(mem, peer, replace(mem.values[peer], {v}))
                      ELSE mem
         IN  IF Computed(first) THEN twins_chars(first, peer, chars \ {v}) ELSE first

\* Lines 243-247, for the common peers ps[lo..hi] in turn.
RECURSIVE twins_peers(_, _, _, _, _)
twins_peers(mem, twin_val, ps, lo, hi) ==
    IF lo > hi THEN mem
    ELSE IF lo = hi
    THEN twins_chars(mem, ps[lo], twin_val)
    ELSE LET mid == (lo + hi) \div 2
             first == twins_peers(mem, twin_val, ps, lo, mid)
         IN  IF Computed(first) THEN twins_peers(first, twin_val, ps, mid + 1, hi) ELSE first

\* Lines 238-247 for one pair: twin_val is read from the board as it is now.
naked_twins_pair(mem, naked_twin) ==
    LET box1 == naked_twin[1]
        box2 == naked_twin[2]
        twin_val == mem.values[box1]
        common_peers == Walk(peers[box1] \cap peers[box2])
    IN  twins_peers(mem, twin_val, common_peers, 1, Len(common_peers))

\* Lines 237-247, for the pairs pairs[lo..hi] in turn.
RECURSIVE naked_twins_loop(_, _, _, _)
naked_twins_loop(mem, pairs, lo, hi) ==
    IF lo > hi THEN mem
    ELSE IF lo = hi THEN naked_twins_pair(mem, pairs[lo])
    ELSE LET mid == (lo + hi) \div 2
             first == naked_twins_loop(mem, pairs, lo, mid)
         IN  IF Computed(first) THEN naked_twins_loop(first, pairs, mid + 1, hi) ELSE first

naked_twins_mem(mem) ==
    naked_twins_loop(mem, naked_twins_list(mem.values), 1,
                     Len(naked_twins_list(mem.values)))

\* The board that naked_twins returns.
naked_twins(values) == naked_twins_mem(Mem(values, EmptyHistory)).values

---------------------------------------------------------------------------
(* Grid strings and boards.                                                *)

Min(a, b) == IF a < b THEN a ELSE b

\* A faulty grid2values that pairs the characters of a full grid with the
\* boxes column by column instead of row by row.
grid2values_transposed(g) ==
    Tuple([k \in 1..Min(Len(g), Len(boxes)) |->
            LET from == IF Len(g) < Len(boxes) THEN k
                        ELSE (((k - 1) % Len(cols)) * Len(rows)) + ((k - 1) \div Len(cols)) + 1
                val == g[from]
            IN  IF val = DOT THEN AllDigits ELSE {val}])

\* grid2values, sudoku.py lines 83-105.  zip(grid, boxes) stops at the
\* shorter of the two: a grid longer than 81 characters is cut, a shorter one
\* gives a board without the last keys.
\* The k-th character goes to the key boxes[k], which is k.
grid2values(g) ==
    Tuple([k \in 1..Min(Len(g), Len(boxes)) |->
            LET val == g[k]
            IN  IF val = DOT THEN AllDigits ELSE {val}])

\* len([box for box in values.keys() if len(values[box]) == 1]), lines 271, 277.
num_solved(values) == Len(solved_boxes(values))

\* A faulty test that never sees an empty box.
has_empty_never(values) == FALSE

\* Line 281: some box has no candidate left.
has_empty(values) == \E box \in DOMAIN values : len(values[box]) = 0

\* Line 313.
all_solved(values) == \A box \in Boxes : len(values[box]) = 1

\* A faulty choice that takes, among the unsolved boxes with the fewest
\* characters, the one with the greatest label.
min_box_last(values) ==
    CHOOSE box \in Boxes :
        /\ len(values[box]) > 1
        /\ \A other \in Boxes :
              len(values[other]) > 1 =>
                  \/ len(values[box]) < len(values[other])
                  \/ (len(values[box]) = len(values[other]) /\ box >= other)

\* Line 317: min((len(values[box]), box) ...) over the unsolved boxes; tuples
\* compare by length first, then by label.
min_box(values) ==
    CHOOSE box \in Boxes :
        /\ len(values[box]) > 1
        /\ \A other \in Boxes :
              len(values[other]) > 1 =>
                  \/ len(values[box]) < len(values[other])
                  \/ (len(values[box]) = len(values[other]) /\ box <= other)

---------------------------------------------------------------------------
(* reconstruct, sudoku.py lines 126-152.                                   *)

\* Lines 149-151 from the grid string prev on: the steps found by following
\* the parent links, the step nearest to prev last (the list path reversed,
\* line 152).
RECURSIVE reconstruct_from(_, _)
reconstruct_from(hist, prev) ==
    IF prev \in DOMAIN hist
    THEN Append(reconstruct_from(hist, hist[prev][1]), hist[prev][2])
    ELSE << >>

\* The grid string at which the loop of line 149 stops.
RECURSIVE reconstruct_start(_, _)
reconstruct_start(hist, prev) ==
    IF prev \in DOMAIN hist
    THEN reconstruct_start(hist, hist[prev][1])
    ELSE prev

reconstruct(values, hist) == reconstruct_from(hist, values2grid(values))

---------------------------------------------------------------------------
(* The dict objects.  heap[ref] is the board of dict object ref; a board is *)
(* updated in place by writing heap[ref].                                  *)

\* A faulty branch that works on the parent's dict itself instead of a copy.
dict_alias(h, ref) == [heap |-> h, ref |-> ref]

\* values.copy(), line 322: a new dict object with the same items.
dict_copy(h, ref) == [heap |-> Append(h, h[ref]), ref |-> Len(h) + 1]

\* An activation of search (or of a caller of the reducers): the dict it
\* works on, its place in the code, num_solved_boxes_before, the box chosen
\* at line 317 and the characters of values[box] still to try at line 321.
\* direct: the reducers are called one by one on a board by a caller outside
\* reduce_puzzle (each is a public function of the module).
Frame(ref, pc, direct) ==
    [vals |-> ref, pc |-> pc, direct |-> direct, before |-> 0, box |-> 0,
     todo |-> {}]

Top == stack[Len(stack)]

Running(pc) == stack # << >> /\ Top.pc = pc

SetTop(f) == [stack EXCEPT ![Len(stack)] = f]

Pop == SubSeq(stack, 1, Len(stack) - 1)

NoResult == [kind |-> "none", ref |-> 0]

\* No reducer was called by the last step.
NoCall == [fn |-> "none", ref |-> 0, arg |-> << >>]

\* The reducer fn was called on the dict of the running activation.
Call(fn) == [fn |-> fn, ref |-> Top.vals, arg |-> heap[Top.vals]]

Values == heap[Top.vals]

Reducers == {"eliminate", "only_choice", "naked_twins"}

\* The call that follows a reducer: the next line of reduce_puzzle, or any
\* reducer when they are called directly.
NextCalls(next) == IF Top.direct THEN Reducers ELSE {next}

---------------------------------------------------------------------------
(* Input grids.  A grid is written as nine numbers of nine digits, one per *)
(* row, with 0 for the placeholder '.'.                                    *)

Digit(n, j) == (n \div (10 ^ (Len(cols) - j))) % 10

FromRows(rs) ==
    Tuple([k \in 1..(Len(rows) * Len(cols)) |->
            LET d == Digit(rs[((k - 1) \div Len(cols)) + 1],
                           ((k - 1) % Len(cols)) + 1)
            IN  IF d = 0 THEN DOT ELSE d])

\* sudoku.py lines 65, 92, 342, 356.
Grid1 ==
    FromRows(<<200000000, 000006200, 001000070, 006008000, 300090007,
               000600400, 040000800, 005200000, 000000003>>)

\* sudoku.py line 357.
Grid2 ==
    FromRows(<<000600500, 000500000, 000200087, 009001000, 000005000,
               000000000, 085000000, 070030050, 001050009>>)

\* sudoku.py line 358.
Grid3 ==
    FromRows(<<000000004, 000000100, 000600000, 070000208, 000372040,
               000000307, 000000400, 000050600, 004000020>>)

\* The completions of the three grids that the program itself prints.
Solution1 ==
    FromRows(<<267945381, 853716249, 491823576, 576438192, 384192657,
               129657438, 642379815, 935281764, 718564923>>)

Solution2 ==
    FromRows(<<417698532, 628573941, 593214687, 859741326, 162385794,
               734926815, 285469173, 976132458, 341857269>>)

Solution3 ==
    FromRows(<<651829734, 728435196, 493617852, 375946218, 816372549,
               249581367, 562198473, 937254681, 184763925>>)

BaseGrids == {Grid1, Grid2, Solution1}

KnownSolutions == {Solution1, Solution2, Solution3}

\* The characters an edit writes: '.', '0' and the digits '1' .. '9'.
EditChars == {DOT, 0} \cup AllDigits

\* The number of leading characters of a base grid that an edit may replace.
EditSpan == 9

\* A base grid, a completed grid, a base grid with one of its first EditSpan
\* characters replaced, without its last character, or with one more
\* character.
Grids ==
    BaseGrids
    \cup KnownSolutions
    \cup {[g EXCEPT ![p] = c] : g \in BaseGrids, p \in 1..EditSpan, c \in EditChars}
    \cup {SubSeq(g, 1, Len(g) - 1) : g \in BaseGrids}
    \cup {Append(g, DOT) : g \in BaseGrids}

\* Boards for direct calls of the reducers: the solved board of Solution1
\* with its first WindowSize boxes given any candidate strings of Family.
WindowSize == 3

Family == {{}, {2}, {6}, {2, 6}, {6, 7}, {2, 6, 7}, AllDigits}

SolvedBoard == grid2values(Solution1)

InputBoards ==
    {w \o SubSeq(SolvedBoard, WindowSize + 1, Len(SolvedBoard)) :
     w \in [1..WindowSize -> Family]}

---------------------------------------------------------------------------
(* solve(grid), sudoku.py lines 333-352, and the steps of search and       *)
(* reduce_puzzle.                                                          *)

Init ==
    /\ grid \in Grids
    /\ heap = << >>
    /\ stack = << >>
    /\ result = NoResult
    /\ last = NoCall
    /\ history = EmptyHistory
    /\ game = Idle
    /\ player = Idle
    /\ clock = Idle
    /\ move = Idle
    /\ problem = Idle
    /\ state = Idle

\* Lines 350-351: the board is built and search is entered; search enters
\* reduce_puzzle (line 309), whose loop starts at line 270.
Solve ==
    /\ stack = << >> /\ heap = << >> /\ result = NoResult
    /\ heap' = <<grid2values(grid)>>
    /\ stack' = <<Frame(1, "eliminate", FALSE)>>
    /\ last' = NoCall
    /\ UNCHANGED <<grid, result, history, agent_vars, cargo_vars>>

\* A board without some key of `boxes`: only_choice reads values[box] for
\* every box of every unit (line 209), and eliminate for every peer of a
\* solved box (line 180), so the first iteration of reduce_puzzle raises
\* KeyError, which nothing catches: it leaves solve.
KeyError ==
    /\ Running("eliminate") /\ DOMAIN Values # Boxes
    /\ stack' = << >>
    /\ result' = [kind |-> "KeyError", ref |-> 0]
    /\ last' = NoCall
    /\ UNCHANGED <<grid, heap, history, agent_vars, cargo_vars>>

\* Lines 271 and 273.
Eliminate ==
    /\ Running("eliminate") /\ DOMAIN Values = Boxes
    /\ LET mem == eliminate_mem(Mem(Values, history), solved_boxes(Values))
       IN  /\ heap' = [heap EXCEPT ![Top.vals] = mem.values]
           /\ history' = mem.history
    /\ \E next \in NextCalls("only_choice") :
          stack' = SetTop([Top EXCEPT !.pc = next, !.before = num_solved(Values)])
    /\ last' = Call("eliminate")
    /\ UNCHANGED <<grid, result, agent_vars, cargo_vars>>

\* Line 274.
OnlyChoice ==
    /\ Running("only_choice")
    /\ LET mem == only_choice_mem(Mem(Values, history))
       IN  /\ heap' = [heap EXCEPT ![Top.vals] = mem.values]
           /\ history' = mem.history
    /\ \E next \in NextCalls("naked_twins") :
          stack' = SetTop([Top EXCEPT !.pc = next])
    /\ last' = Call("only_choice")
    /\ UNCHANGED <<grid, result, agent_vars, cargo_vars>>

\* Line 275.
NakedTwins ==
    /\ Running("naked_twins")
    /\ LET mem == naked_twins_mem(Mem(Values, history))
       IN  /\ heap' = [heap EXCEPT ![Top.vals] = mem.values]
           /\ history' = mem.history
    /\ \E next \in NextCalls("test") :
          stack' = SetTop([Top EXCEPT !.pc = next])
    /\ last' = Call("naked_twins")
    /\ UNCHANGED <<grid, result, agent_vars, cargo_vars>>

\* Lines 277-282 with an empty box: reduce_puzzle returns False, and search
\* returns False at once (lines 311-312).
ReduceFalse ==
    /\ Running("test") /\ has_empty(Values)
    /\ stack' = Pop
    /\ result' = [kind |-> "False", ref |-> 0]
    /\ last' = NoCall
    /\ UNCHANGED <<grid, heap, history, agent_vars, cargo_vars>>

\* Lines 277-282, no empty box and the count of solved boxes changed: the
\* loop runs again.
ReduceAgain ==
    /\ Running("test") /\ ~has_empty(Values)
    /\ num_solved(Values) # Top.before
    /\ stack' = SetTop([Top EXCEPT !.pc = "eliminate"])
    /\ last' = NoCall
    /\ UNCHANGED <<grid, heap, result, history, agent_vars, cargo_vars>>

\* A faulty end of the loop that takes a stalled reduction for a failure and
\* returns False.
ReduceStalledFalse ==
    /\ Running("test") /\ ~has_empty(Values)
    /\ num_solved(Values) = Top.before
    /\ stack' = Pop
    /\ result' = [kind |-> "False", ref |-> 0]
    /\ last' = NoCall
    /\ UNCHANGED <<grid, heap, history, agent_vars, cargo_vars>>

\* A faulty end of the loop that runs the loop again although the count of
\* solved boxes did not change.
ReduceStalledAgain ==
    /\ Running("test") /\ ~has_empty(Values)
    /\ num_solved(Values) = Top.before
    /\ stack' = SetTop([Top EXCEPT !.pc = "eliminate"])
    /\ last' = NoCall
    /\ UNCHANGED <<grid, heap, result, history, agent_vars, cargo_vars>>

\* Lines 277-284, stalled without an empty box: reduce_puzzle returns the
\* board.
ReduceStalled ==
    /\ Running("test") /\ ~has_empty(Values)
    /\ num_solved(Values) = Top.before
    /\ stack' = SetTop([Top EXCEPT !.pc = "check"])
    /\ last' = NoCall
    /\ UNCHANGED <<grid, heap, result, history, agent_vars, cargo_vars>>

\* Lines 313-314: every box is solved, search returns the board.
SearchSolved ==
    /\ Running("check") /\ all_solved(Values)
    /\ stack' = Pop
    /\ result' = [kind |-> "board", ref |-> Top.vals]
    /\ last' = NoCall
    /\ UNCHANGED <<grid, heap, history, agent_vars, cargo_vars>>

\* Line 317 and the start of the loop of line 321 over values[box].
SearchChoose ==
    /\ Running("check") /\ ~all_solved(Values)
    /\ stack' = SetTop([Top EXCEPT !.pc = "loop", !.box = min_box(Values),
                                   !.todo = Values[min_box(Values)]])
    /\ last' = NoCall
    /\ UNCHANGED <<grid, heap, result, history, agent_vars, cargo_vars>>

\* Lines 321-325 for the next character v: the board is copied, the box is
\* set to v in the copy and search is called on the copy.
SearchBranch ==
    /\ Running("loop") /\ Top.todo # {}
    /\ LET v == first_char(Top.todo)
           new == dict_copy(heap, Top.vals)
       IN  /\ heap' = [new.heap EXCEPT ![new.ref][Top.box] = {v}]
           /\ stack' = Append(SetTop([Top EXCEPT !.pc = "wait", !.todo = @ \ {v}]),
                              Frame(new.ref, "eliminate", FALSE))
    /\ last' = NoCall
    /\ UNCHANGED <<grid, result, history, agent_vars, cargo_vars>>

\* Lines 327-328: the call returned a board, which search returns.
SearchReturn ==
    /\ Running("wait") /\ result.kind = "board"
    /\ stack' = Pop
    /\ last' = NoCall
    /\ UNCHANGED <<grid, heap, result, history, agent_vars, cargo_vars>>

\* A faulty loop that gives up after the first branch that returns False
\* instead of trying the next character.
SearchGiveUp ==
    /\ Running("wait") /\ result.kind = "False"
    /\ stack' = Pop
    /\ heap' = SubSeq(heap, 1, Top.vals)
    /\ last' = NoCall
    /\ UNCHANGED <<grid, result, history, agent_vars, cargo_vars>>

\* Line 327 with False: the loop goes on.  The dict of the call that
\* returned is no longer referenced and is dropped.
SearchNext ==
    /\ Running("wait") /\ result.kind = "False"
    /\ stack' = SetTop([Top EXCEPT !.pc = "loop"])
    /\ heap' = SubSeq(heap, 1, Top.vals)
    /\ result' = NoResult
    /\ last' = NoCall
    /\ UNCHANGED <<grid, history, agent_vars, cargo_vars>>

\* Line 330: every character was tried.
SearchFail ==
    /\ Running("loop") /\ Top.todo = {}
    /\ stack' = Pop
    /\ result' = [kind |-> "False", ref |-> 0]
    /\ last' = NoCall
    /\ UNCHANGED <<grid, heap, history, agent_vars, cargo_vars>>

Next ==
    \/ Solve
    \/ KeyError
    \/ Eliminate
    \/ OnlyChoice
    \/ NakedTwins
    \/ ReduceFalse
    \/ ReduceAgain
    \/ ReduceStalled
    \/ SearchSolved
    \/ SearchChoose
    \/ SearchBranch
    \/ SearchReturn
    \/ SearchNext
    \/ SearchFail

Spec == Init /\ [][Next]_vars

\* The reducers called directly, in any order, on a board of InputBoards.
InitReducers ==
    /\ grid = << >>
    /\ heap \in {<<b>> : b \in InputBoards}
    /\ stack \in {<<Frame(1, pc, TRUE)>> : pc \in Reducers}
    /\ result = NoResult
    /\ last = NoCall
    /\ history = EmptyHistory
    /\ game = Idle
    /\ player = Idle
    /\ clock = Idle
    /\ move = Idle
    /\ problem = Idle
    /\ state = Idle

NextReducers ==
    \/ Eliminate
    \/ OnlyChoice
    \/ NakedTwins

SpecReducers == InitReducers /\ [][NextReducers]_vars

\* reduce_puzzle called directly by a caller that keeps a copy of the board
\* it passes: heap[1] is the dict reduce_puzzle works on, heap[2] the copy.
\* The caller may call reduce_puzzle again on the board it got back.
ReduceBoards == InputBoards \cup {grid2values(g) : g \in BaseGrids}

InitReduce ==
    /\ grid = << >>
    /\ heap \in {<<b, b>> : b \in ReduceBoards}
    /\ stack = <<Frame(1, "eliminate", FALSE)>>
    /\ result = NoResult
    /\ last = NoCall
    /\ history = EmptyHistory
    /\ game = Idle
    /\ player = Idle
    /\ clock = Idle
    /\ move = Idle
    /\ problem = Idle
    /\ state = Idle

\* reduce_puzzle returned the board (line 284) and is called on it again.
ReduceCallAgain ==
    /\ Running("check")
    /\ heap' = <<heap[1], heap[1]>>
    /\ stack' = <<Frame(1, "eliminate", FALSE)>>
    /\ last' = NoCall
    /\ UNCHANGED <<grid, result, history, agent_vars, cargo_vars>>

NextReduce ==
    \/ Eliminate
    \/ OnlyChoice
    \/ NakedTwins
    \/ ReduceFalse
    \/ ReduceAgain
    \/ ReduceStalled
    \/ ReduceCallAgain

SpecReduce == InitReduce /\ [][NextReduce]_vars

\* The tables units and peers of the module, read by a caller for a box.
InitTopology ==
    /\ grid = << >>
    /\ heap = << >>
    /\ stack = << >>
    /\ result = NoResult
    /\ last = NoCall
    /\ history = EmptyHistory
    /\ game = Idle
    /\ player = Idle
    /\ clock = Idle
    /\ move = Idle
    /\ problem = Idle
    /\ state = Idle

\* units[box], line 20.
ReadUnits ==
    /\ \E box \in Boxes : last' = [fn |-> "units", ref |-> box, arg |-> units[box]]
    /\ UNCHANGED <<grid, heap, stack, result, history, agent_vars, cargo_vars>>

\* peers[box], line 21.
ReadPeers ==
    /\ \E box \in Boxes : last' = [fn |-> "peers", ref |-> box, arg |-> peers[box]]
    /\ UNCHANGED <<grid, heap, stack, result, history, agent_vars, cargo_vars>>

NextTopology ==
    \/ ReadUnits
    \/ ReadPeers

SpecTopology == InitTopology /\ [][NextTopology]_vars

---------------------------------------------------------------------------
(* What the claims speak of.                                               *)

\* solve has returned, or an exception has left it.
Returned == stack = << >> /\ result # NoResult

ReturnedBoard == Returned /\ result.kind = "board"

\* The board that solve returned.
Board == heap[result.ref]

\* 81 characters, each a digit '1' .. '9' or '.'.
WellFormed(g) ==
    /\ Len(g) = Len(boxes)
    /\ \A k \in 1..Len(g) : g[k] \in AllDigits \cup {DOT}

Resolved(b) == \A box \in Boxes : len(b[box]) = 1

\* Every unit holds every digit in exactly one box.
UnitsValid(b) ==
    \A u \in 1..Len(unitlist) : \A d \in AllDigits :
        Cardinality({box \in Range(unitlist[u]) : b[box] = {d}}) = 1

\* The board b is a complete valid assignment that agrees with the clues of g.
IsCompletion(b, g) ==
    /\ Resolved(b)
    /\ UnitsValid(b)
    /\ \A k \in 1..Len(boxes) : g[k] # DOT => b[boxes[k]] = {g[k]}

HasKnownCompletion(g) ==
    \E s \in KnownSolutions : IsCompletion(grid2values(s), g)

\* Two boxes of one unit carry the same clue digit.
DuplicateClue(g) ==
    \E box \in Boxes : \E peer \in peers[box] :
        g[box] \in AllDigits /\ g[box] = g[peer]

\* The board after the reducer call of the last step.
Out == heap[last.ref]

\* The digits d for which box is, on board b, the only box of one of its
\* units that holds d.
OnlyPlaces(b, box) ==
    {d \in AllDigits :
        \E u \in 1..Len(units[box]) :
            {x \in Range(units[box][u]) : d \in b[x]} = {box}}

\* naked_twins on a snapshot: every pair of the list found on the input, and
\* that pair's input digits, removed from every box that is a peer of both.
naked_twins_snapshot(values) ==
    LET pairs == Range(naked_twins_list(values))
    IN  [box \in DOMAIN values |->
            values[box] \ UNION {values[q[1]] :
                                 q \in {r \in pairs :
                                          box \in peers[r[1]] \cap peers[r[2]]}}]

---------------------------------------------------------------------------
(* C1.  Whenever solve returns a board, every box of it holds exactly one  *)
(* digit and every one of the 29 units holds each digit 1-9 in exactly one *)
(* box.  (Fails for a grid with a character outside '1'..'9' and '.',      *)
(* which solve does not reject: see C6.)                                   *)
C1_UnitValidity == ReturnedBoard => Resolved(Board) /\ UnitsValid(Board)

(* C2.  For a well-formed grid that has a complete valid assignment        *)
(* agreeing with its clues, solve returns a board and not False.           *)
C2_SolvableIsSolved ==
    (Returned /\ WellFormed(grid) /\ HasKnownCompletion(grid))
        => result.kind = "board"

\* A solvable grid was solved by a branch of the search.
C2_Witness ==
    /\ ReturnedBoard /\ WellFormed(grid) /\ HasKnownCompletion(grid)
    /\ result.ref > 1

(* C3.  For a well-formed grid solve returns normally (a board or False,   *)
(* no exception); with two equal clue digits in one unit it returns False; *)
(* and a board it returns is a valid completion of the grid, so that a     *)
(* grid without completion gets False.                                     *)
C3_ContradictionIsFalse ==
    (Returned /\ WellFormed(grid)) =>
        /\ result.kind \in {"board", "False"}
        /\ DuplicateClue(grid) => result.kind = "False"
        /\ result.kind = "board" => IsCompletion(Board, grid)

C3_Witness ==
    Returned /\ WellFormed(grid) /\ DuplicateClue(grid) /\ result.kind = "False"

(* C4.  Monotonicity: after eliminate, only_choice or naked_twins every    *)
(* box holds a subset of the candidates it held before the call, so no     *)
(* candidate set grows, an empty one included.                             *)
C4_Monotone ==
    last.fn \in Reducers =>
        \A box \in DOMAIN last.arg :
            /\ Out[box] \subseteq last.arg[box]
            /\ len(Out[box]) <= len(last.arg[box])

\* eliminate shrank a box of a board that also has an empty box.
C4_Witness ==
    /\ last.fn = "eliminate"
    /\ \E box \in DOMAIN last.arg : last.arg[box] = {}
    /\ \E box \in DOMAIN last.arg : Out[box] # last.arg[box]

(* C5.  Branch isolation: a step never changes the board of an activation  *)
(* of search that has chosen its box (it is in its loop or waits for a     *)
(* recursive call), whatever the recursive calls do in place; and the      *)
(* board a branch starts from is that board with the box set to the next   *)
(* candidate.                                                              *)
C5_BranchIsolation ==
    [][ /\ \A i \in 1..Len(stack) :
              stack[i].pc \in {"loop", "wait"}
                  => heap'[stack[i].vals] = heap[stack[i].vals]
        /\ (Running("loop") /\ Len(stack') > Len(stack))
              => heap'[stack'[Len(stack')].vals]
                    = [Values EXCEPT ![Top.box] = {first_char(Top.todo)}]
      ]_vars

\* A second branch has just started from the board its parent reduced,
\* after the first branch returned False.
C5_Witness ==
    /\ Len(stack) >= 2
    /\ last = NoCall /\ Top.pc = "eliminate"
    /\ LET parent == stack[Len(stack) - 1]
           reduced == heap[parent.vals]
       IN  /\ parent.pc = "wait"
           /\ Cardinality(reduced[parent.box] \ parent.todo) = 2
           /\ \E v \in reduced[parent.box] \ parent.todo :
                 Values = [reduced EXCEPT ![parent.box] = {v}]

(* C6.  Malformed input is rejected with InvalidInput; in particular solve *)
(* never returns a board for a grid whose length is not 81 or that has a   *)
(* character other than '1'..'9' and '.'.  (The program has no InvalidInput *)
(* outcome at all; stated here is the part that it never returns a board.) *)
C6_MalformedNeverBoard ==
    (Returned /\ ~WellFormed(grid)) => result.kind # "board"

(* C7.  naked_twins acts on a snapshot of its input: its result is the     *)
(* input with, for every pair of twins of the input, that pair's two input *)
(* digits removed from every common peer.                                  *)
C7_TwinsSnapshot ==
    last.fn = "naked_twins" => Out = naked_twins_snapshot(last.arg)

(* C8.  After eliminate, the digit of every box that was resolved in the   *)
(* input is absent from every peer of that box.                            *)
C8_EliminatePost ==
    last.fn = "eliminate" =>
        \A box \in DOMAIN last.arg :
            len(last.arg[box]) = 1 =>
                \A peer \in peers[box] : last.arg[box] \cap Out[peer] = {}

(* C9.  eliminate is order-independent: processing the resolved boxes in   *)
(* the reverse order gives the same board as the order the program uses.   *)
C9_OrderIndependent ==
    last.fn = "eliminate" =>
        eliminate_in(last.arg, Reverse(solved_boxes(last.arg))) = Out

(* C10 as stated.  After only_choice a box that was, in the input, the     *)
(* only box of one of its units holding a digit is the singleton of that   *)
(* digit, and every other box keeps its candidates.                        *)
C10_OnlyChoiceOfInput ==
    last.fn = "only_choice" =>
        \A box \in DOMAIN last.arg :
            /\ \A d \in OnlyPlaces(last.arg, box) : Out[box] = {d}
            /\ OnlyPlaces(last.arg, box) = {} => Out[box] = last.arg[box]

(* C10 as amended.  After only_choice a box that was, in the input, the    *)
(* only box of one of its units holding a digit is resolved to one of its  *)
(* input candidates; every box either keeps its candidates or is resolved  *)
(* to one of them, and is then the only box of one of its units that holds *)
(* that digit on the resulting board.                                      *)
C10_OnlyChoiceAmended ==
    last.fn = "only_choice" =>
        \A box \in DOMAIN last.arg :
            /\ OnlyPlaces(last.arg, box) # {}
                  => len(Out[box]) = 1 /\ Out[box] \subseteq last.arg[box]
            /\ \/ Out[box] = last.arg[box]
               \/ /\ len(Out[box]) = 1
                  /\ Out[box] \subseteq last.arg[box]
                  /\ Out[box] \subseteq OnlyPlaces(Out, box)

\* only_choice resolved a box that was the only place of no digit in the
\* input: it became one during the pass.
C10_Witness ==
    /\ last.fn = "only_choice"
    /\ \E box \in DOMAIN last.arg :
          /\ OnlyPlaces(last.arg, box) = {}
          /\ len(last.arg[box]) > 1
          /\ len(Out[box]) = 1

---------------------------------------------------------------------------
\* Some box of board b has no candidate left.
HasEmptyBox(b) == \E box \in DOMAIN b : b[box] = {}

(* C11.  reduce_puzzle returns False exactly on contradiction: a box that  *)
(* is empty when a reducer is called is still empty when it returns, so an *)
(* empty box that appears at any point reaches the test at the end of the  *)
(* iteration; at that test reduce_puzzle returns False if and only if some *)
(* box is empty; and a board it has returned has no empty box.             *)
C11_FalseOnEmpty ==
    [][ /\ (last'.fn \in Reducers /\ HasEmptyBox(last'.arg))
              => HasEmptyBox(heap'[last'.ref])
        /\ Running("test")
              => ((result'.kind = "False" /\ stack' = Pop)
                     <=> HasEmptyBox(Values))
        /\ Running("check") => ~HasEmptyBox(Values)
      ]_vars

\* Inside a branch of the search, eliminate has just emptied a box of a
\* board that had none, in the middle of an iteration of reduce_puzzle.
C11_Witness ==
    /\ Len(stack) >= 2 /\ Running("only_choice")
    /\ last.fn = "eliminate"
    /\ ~HasEmptyBox(last.arg)
    /\ HasEmptyBox(Values)

---------------------------------------------------------------------------
\* One more pass of the three strategies over board b.
OneMorePass(b) == naked_twins(only_choice(eliminate(b)))

(* C12.  A board that reduce_puzzle returns is a fixed point: eliminate,   *)
(* then only_choice, then naked_twins applied to it once more leave every  *)
(* box unchanged.                                                          *)
C12_ReturnsFixedPoint == Running("check") => OneMorePass(Values) = Values

---------------------------------------------------------------------------
\* Board b is left unchanged by eliminate, by only_choice and by naked_twins.
IsFixedPoint(b) == eliminate(b) = b /\ only_choice(b) = b /\ naked_twins(b) = b

\* reduce_puzzle, called directly, has returned.
ReduceReturned == Running("check") \/ (stack = << >> /\ result.kind = "False")

(* C13 as stated.  reduce_puzzle applied to a board that is a fixed point  *)
(* returns a board identical to its input.                                 *)
C13_IdempotentOnFixedPoint ==
    (ReduceReturned /\ IsFixedPoint(heap[2]))
        => Running("check") /\ heap[1] = heap[2]

(* C13 as amended.  reduce_puzzle applied to a fixed point without an      *)
(* empty box returns a board identical to its input; applied to a fixed    *)
(* point with an empty box it returns False.                               *)
C13_IdempotentAmended ==
    (ReduceReturned /\ IsFixedPoint(heap[2])) =>
        IF HasEmptyBox(heap[2])
        THEN result.kind = "False"
        ELSE Running("check") /\ heap[1] = heap[2]

\* reduce_puzzle returned, unchanged, a fixed point that still has boxes
\* with several candidates.
C13_Witness ==
    /\ Running("check")
    /\ IsFixedPoint(heap[2])
    /\ ~all_solved(heap[2])
    /\ heap[1] = heap[2]

---------------------------------------------------------------------------
\* Grid g has 81 clues and every unit holds each digit once.
IsSolvedGrid(g) ==
    /\ WellFormed(g)
    /\ \A k \in 1..Len(g) : g[k] # DOT
    /\ UnitsValid(grid2values(g))

(* C14.  For a grid that is already completely and validly filled, the     *)
(* board is never changed, search makes no recursive call (no copy of the  *)
(* board is made and no second activation exists), and solve returns the   *)
(* board grid2values(grid).                                                *)
C14_SolvedGridUnchanged ==
    IsSolvedGrid(grid) =>
        /\ Len(heap) <= 1 /\ Len(stack) <= 1
        /\ heap # << >> => heap[1] = grid2values(grid)
        /\ Returned => result = [kind |-> "board", ref |-> 1]

C14_Witness == Returned /\ IsSolvedGrid(grid) /\ Board = grid2values(grid)

---------------------------------------------------------------------------
(* C15.  Round trip of the grid encoding, for every board an activation   *)
(* works on: values2grid writes 81 characters, the digit of a box exactly     *)
(* when the box has one candidate and '.' otherwise; grid2values maps '.'  *)
(* to the nine digits; and for a board with every box resolved             *)
(* grid2values(values2grid(board)) is the board.                           *)
C15_RoundTrip ==
    (stack # << >> /\ DOMAIN Values = Boxes) =>
        LET g == values2grid(Values)
            back == grid2values(g)
        IN  /\ Len(g) = Len(boxes)
            /\ \A k \in 1..Len(boxes) :
                  /\ g[k] # DOT <=> len(Values[boxes[k]]) = 1
                  /\ g[k] # DOT => Values[boxes[k]] = {g[k]}
                  /\ g[k] = DOT => back[boxes[k]] = AllDigits
            /\ Resolved(Values) => back = Values

\* A branch of the search works on a resolved board, which the round trip
\* reproduces, while the board of its caller has unresolved boxes.
C15_Witness ==
    /\ Len(stack) >= 2
    /\ Resolved(Values)
    /\ grid2values(values2grid(Values)) = Values
    /\ ~Resolved(heap[1])

---------------------------------------------------------------------------
\* The row and the column of a box, from 1.
RowOf(box) == ((box - 1) \div 9) + 1

ColOf(box) == ((box - 1) % 9) + 1

\* The number of units a box must be in: its row, its column, its square,
\* and each diagonal it lies on.
UnitCount(box) ==
    3 + (IF RowOf(box) = ColOf(box) THEN 1 ELSE 0)
      + (IF RowOf(box) + ColOf(box) = 10 THEN 1 ELSE 0)

(* C16.  There are exactly 29 units: the 9 rows, the 9 columns, the 9      *)
(* squares and the 2 main diagonals; each is a list of 9 distinct boxes of *)
(* the 81; and units[box] is exactly the list of the units that contain    *)
(* box: 3 for a box on no diagonal, 4 on one diagonal, 5 for the centre.   *)
C16_Topology ==
    last.fn = "units" =>
        /\ Cardinality(Boxes) = 81
        /\ Len(unitlist) = 29
        /\ Len(row_units) = 9 /\ Len(column_units) = 9
        /\ Len(square_units) = 9 /\ Len(diag_units) = 2
        /\ \A k \in 1..9 :
              /\ Range(row_units[k]) = {box \in Boxes : RowOf(box) = k}
              /\ Range(column_units[k]) = {box \in Boxes : ColOf(box) = k}
        /\ {Range(square_units[k]) : k \in 1..Len(square_units)}
              = {{box \in Boxes : (RowOf(box) - 1) \div 3 = i
                                    /\ (ColOf(box) - 1) \div 3 = j} :
                 i \in 0..2, j \in 0..2}
        /\ {Range(diag_units[k]) : k \in 1..Len(diag_units)}
              = {{box \in Boxes : RowOf(box) = ColOf(box)},
                 {box \in Boxes : RowOf(box) + ColOf(box) = 10}}
        /\ \A k \in 1..Len(unitlist) :
              /\ Len(unitlist[k]) = 9
              /\ Cardinality(Range(unitlist[k])) = 9
              /\ Range(unitlist[k]) \subseteq Boxes
        /\ Range(last.arg) = {unit \in Range(unitlist) : last.ref \in Range(unit)}
        /\ Len(last.arg) = UnitCount(last.ref)
        /\ UnitCount(last.ref) \in 3..5
        /\ UnitCount(last.ref) = 5 <=> last.ref = Label(5, 5)

\* The units of the centre box E5 were read: there are five.
C16_Witness ==
    last.fn = "units" /\ last.ref = Label(5, 5) /\ Len(last.arg) = 5

(* C17.  peers[box] is exactly the union of the units that contain box,    *)
(* without box; so no box is its own peer, and the relation is symmetric:  *)
(* any other box is a peer of box if and only if box is a peer of it.      *)
C17_PeersSymmetric ==
    last.fn = "peers" =>
        /\ last.arg = UNION {Range(unit) : unit \in
                               {u \in Range(unitlist) : last.ref \in Range(u)}}
                      \ {last.ref}
        /\ last.ref \notin last.arg
        /\ \A other \in Boxes : other \in last.arg <=> last.ref \in peers[other]

\* The peers of A1 were read; I9 shares only the diagonal with A1.
C17_Witness ==
    /\ last.fn = "peers" /\ last.ref = Label(1, 1)
    /\ Label(9, 9) \in last.arg
    /\ Label(1, 1) \in peers[Label(9, 9)]

---------------------------------------------------------------------------
\* The grid string g after the assignments path[1..n] (box, value), each
\* writing the single character of value at the place of box.
RECURSIVE ApplyPath(_, _, _)
ApplyPath(g, path, n) ==
    IF n = 0 THEN g
    ELSE [ApplyPath(g, path, n - 1) EXCEPT ![path[n][1]] = first_char(path[n][2])]

(* C18.  After solve has returned a board, starting from an empty history, *)
(* the parent links lead from the grid string of the board back to the     *)
(* grid string of the initial board, and the assignments that reconstruct  *)
(* returns, applied in order to that initial grid, give the grid string of *)
(* the returned board; also when the search had to branch.                 *)
C18_HistoryReconstructs ==
    ReturnedBoard =>
        LET initial == values2grid(grid2values(grid))
            final == values2grid(Board)
            path == reconstruct(Board, history)
        IN  /\ reconstruct_start(history, final) = initial
            /\ ApplyPath(initial, path, Len(path)) = final

---------------------------------------------------------------------------
(* The Isolation agents of project_02 (game_agent.py).                     *)
(*                                                                         *)
(* Encoding.  A board cell and a move are pairs <<row, column>> counted    *)
(* from 0.  A game is a record: loc[p] the cell of player p (1 is the      *)
(* agent itself, 2 its opponent), blocked the cells that were visited,     *)
(* active the player to move, and shuffled the order in which this board   *)
(* hands out lists of moves.  A float is an integer; float("inf") is inf,  *)
(* above every finite score.  The callable time_left is a clock: a call    *)
(* returns clock.left, and clock.rate milliseconds pass before the next    *)
(* call.  A call returns a record whose field timeout tells that it was    *)
(* left by raise SearchTimeout().                                          *)

\* The class isolation.Board, which the agents are given.
BoardHeight == 3

BoardWidth == 3

Cells == (0..(BoardHeight - 1)) \X (0..(BoardWidth - 1))

\* The moves of a knight, in the order Board.__get_moves lists them.
directions ==
    << <<-2, -1>>, <<-2, 1>>, <<-1, -2>>, <<-1, 2>>,
       <<1, -2>>, <<1, 2>>, <<2, -1>>, <<2, 1>> >>

get_opponent(p) == 3 - p

get_player_location(g, p) == g.loc[p]

move_is_legal(g, m) == m \in Cells /\ m \notin g.blocked

\* The cells of the board a knight's move away from each cell, in the order
\* of directions.
knight_moves ==
    [cell \in Cells |->
        LET Target(k) == <<cell[1] + directions[k][1], cell[2] + directions[k][2]>>
        IN  SelectSeq([k \in 1..Len(directions) |-> Target(k)],
                      LAMBDA m : m \in Cells)]

\* Board.get_legal_moves(player): the free cells a knight's move away from
\* the player, in one of two orders (the board shuffles the list).
get_legal_moves(g, p) ==
    LET valid == SelectSeq(knight_moves[g.loc[p]], LAMBDA m : move_is_legal(g, m))
    IN  IF g.shuffled THEN Reverse(valid) ELSE valid

\* Board.forecast_move(move): a copy of the board on which the active
\* player has moved.
forecast_move(g, m) ==
    [loc |-> [g.loc EXCEPT ![g.active] = m],
     blocked |-> g.blocked \cup {m},
     active |-> get_opponent(g.active),
     shuffled |-> g.shuffled]

is_loser(g, p) == p = g.active /\ get_legal_moves(g, g.active) = << >>

is_winner(g, p) == p = get_opponent(g.active) /\ get_legal_moves(g, g.active) = << >>

\* float("inf"), lines 62, 371.
inf == 1000

\* (-1, -1), lines 290, 342, 360.
NoMove == <<-1, -1>>

\* self, as a player of the game.
Self == 1

\* squared_num_moves_diff_score, lines 125-170 (custom_score, line 14).
squared_num_moves_diff_score(g, p) ==
    LET num_own_moves == Len(get_legal_moves(g, p))
        num_opp_moves == Len(get_legal_moves(g, get_opponent(p)))
    IN  IF is_loser(g, p) THEN -inf
        ELSE IF is_winner(g, p) THEN inf
        ELSE IF num_own_moves = 0 THEN -inf
        ELSE IF num_opp_moves = 0 THEN inf
        ELSE num_own_moves * num_own_moves - num_opp_moves * num_opp_moves

\* self.score(game, self): the score function the player was built with
\* (line 250): custom_score, or a function that is -inf, or 0, everywhere.
score(pl, g) ==
    CASE pl.score = "custom_score" -> squared_num_moves_diff_score(g, Self)
      [] pl.score = "minus_inf" -> -inf
      [] pl.score = "zero" -> 0

\* A call that returned best_move (and best_score), at time clk.
Return(m, s, clk) == [timeout |-> FALSE, move |-> m, score |-> s, clock |-> clk]

\* A call left by raise SearchTimeout().
Raise(clk) == [timeout |-> TRUE, move |-> NoMove, score |-> 0, clock |-> clk]

\* self.time_left() < self.TIMER_THRESHOLD, lines 337, 350, 476, 490.
timer_expired(pl, clk) == clk.left < pl.TIMER_THRESHOLD

\* The clock after one call of time_left, whatever the call returned.
elapse(clk) == [clk EXCEPT !.left = @ - clk.rate]

\* MinimaxPlayer.mm, lines 346-379; mm_loop is the for loop of lines 364-369
\* and 372-377 from legal_moves[k] on, with best_move and best_score in best.
RECURSIVE mm(_, _, _, _, _)
RECURSIVE mm_loop(_, _, _, _, _, _, _)
mm_loop(pl, g, depth, maximizing, legal_moves, k, best) ==
    IF k > Len(legal_moves) THEN best
    ELSE LET next_state == forecast_move(g, legal_moves[k])
             r == mm(pl, next_state, depth - 1, ~maximizing, best.clock)
             better == IF maximizing THEN r.score > best.score
                       ELSE r.score < best.score
         IN  IF r.timeout THEN r
             ELSE mm_loop(pl, g, depth, maximizing, legal_moves, k + 1,
                          IF better THEN Return(legal_moves[k], r.score, r.clock)
                          ELSE Return(best.move, best.score, r.clock))

mm(pl, g, depth, maximizing, clk) ==
    IF timer_expired(pl, clk) THEN Raise(elapse(clk))
    ELSE LET now == elapse(clk)
             legal_moves == get_legal_moves(g, g.active)
         IN  IF depth = 0 THEN Return(get_player_location(g, Self), score(pl, g), now)
             ELSE IF legal_moves = << >> THEN Return(NoMove, score(pl, g), now)
             ELSE mm_loop(pl, g, depth, maximizing, legal_moves, 1,
                          Return(NoMove, IF maximizing THEN -inf ELSE inf, now))

\* MinimaxPlayer.minimax, lines 298-344.
minimax(pl, g, depth, clk) ==
    IF timer_expired(pl, clk) THEN Raise(elapse(clk))
    ELSE IF get_legal_moves(g, g.active) = << >> THEN Return(NoMove, 0, elapse(clk))
    ELSE mm(pl, g, depth, TRUE, elapse(clk))

Max(a, b) == IF a >= b THEN a ELSE b

\* AlphaBetaPlayer.ab, lines 485-531; ab_loop is the for loop of lines
\* 505-515 and 519-529 from legal_moves[k] on.
RECURSIVE ab(_, _, _, _, _, _, _)
RECURSIVE ab_loop(_, _, _, _, _, _, _, _, _)
ab_loop(pl, g, depth, alpha, beta, maximizing, legal_moves, k, best) ==
    IF k > Len(legal_moves) THEN best
    ELSE LET next_state == forecast_move(g, legal_moves[k])
             r == ab(pl, next_state, depth - 1, alpha, beta, ~maximizing, best.clock)
             better == IF maximizing THEN r.score > best.score
                       ELSE r.score < best.score
             now == IF better THEN Return(legal_moves[k], r.score, r.clock)
                    ELSE Return(best.move, best.score, r.clock)
         IN  IF r.timeout THEN r
             ELSE IF maximizing
                  THEN IF now.score >= beta THEN now
                       ELSE ab_loop(pl, g, depth, Max(alpha, now.score), beta,
                                    maximizing, legal_moves, k + 1, now)
                  ELSE IF now.score <= alpha THEN now
                       ELSE ab_loop(pl, g, depth, alpha, Min(beta, now.score),
                                    maximizing, legal_moves, k + 1, now)

\* A faulty ab that hands its loop the two bounds in the wrong places, so
\* that the loop is cut short after the first move.
ab_swapped(pl, g, depth, alpha, beta, maximizing, clk) ==
    IF timer_expired(pl, clk) THEN Raise(elapse(clk))
    ELSE LET now == elapse(clk)
             legal_moves == get_legal_moves(g, g.active)
         IN  IF depth = 0 THEN Return(get_player_location(g, Self), score(pl, g), now)
             ELSE IF legal_moves = << >> THEN Return(NoMove, score(pl, g), now)
             ELSE ab_loop(pl, g, depth, beta, alpha, maximizing, legal_moves, 1,
                          Return(NoMove, IF maximizing THEN -inf ELSE inf, now))

ab(pl, g, depth, alpha, beta, maximizing, clk) ==
    IF timer_expired(pl, clk) THEN Raise(elapse(clk))
    ELSE LET now == elapse(clk)
             legal_moves == get_legal_moves(g, g.active)
         IN  IF depth = 0 THEN Return(get_player_location(g, Self), score(pl, g), now)
             ELSE IF legal_moves = << >> THEN Return(NoMove, score(pl, g), now)
             ELSE ab_loop(pl, g, depth, alpha, beta, maximizing, legal_moves, 1,
                          Return(NoMove, IF maximizing THEN -inf ELSE inf, now))

\* AlphaBetaPlayer.alphabeta, lines 431-483, with the default alpha and beta.
alphabeta(pl, g, depth, clk) ==
    IF timer_expired(pl, clk) THEN Raise(elapse(clk))
    ELSE IF get_legal_moves(g, g.active) = << >> THEN Return(NoMove, 0, elapse(clk))
    ELSE ab(pl, g, depth, -inf, inf, TRUE, elapse(clk))

\* What get_move returns: the move, and the number of iterative-deepening
\* depths whose search returned (0 for the first value of best_move).
Move(m, completed) == [kind |-> "move", move |-> m, completed |-> completed]

\* No call was made on the player yet.
NotCalled == [kind |-> "none", move |-> NoMove, completed |-> 0]

\* get_move left by an exception.
Raised == [kind |-> "raise", move |-> NoMove, completed |-> 0]

\* MinimaxPlayer.get_move, lines 261-296: the result and the clock after it.
minimax_get_move(pl, g, clk) ==
    LET best_move == NoMove
        r == minimax(pl, g, pl.search_depth, clk)
    IN  IF r.timeout THEN <<Move(best_move, 0), r.clock>>
        ELSE <<Move(r.move, 1), r.clock>>

\* max_depth, line 421.
max_depth == 100

\* The state of the loop of AlphaBetaPlayer.get_move: best_move, the clock,
\* and whether the loop was left by break.
Loop(best, clk, broken) == [best |-> best, clock |-> clk, broken |-> broken]

\* The iterations depth = lo .. hi of the loop of lines 423-427, in order,
\* from the loop state st; no iteration runs after a break.
RECURSIVE deepening(_, _, _, _, _)
deepening(pl, g, st, lo, hi) ==
    IF st.broken \/ lo > hi THEN st
    ELSE IF lo = hi
    THEN LET r == alphabeta(pl, g, lo, st.clock)
         IN  IF r.timeout THEN Loop(st.best, r.clock, TRUE)
             ELSE Loop(Move(r.move, lo), r.clock, FALSE)
    ELSE LET mid == (lo + hi) \div 2
             first == deepening(pl, g, st, lo, mid)
         IN  IF Computed(first) THEN deepening(pl, g, first, mid + 1, hi)
             ELSE first

\* AlphaBetaPlayer.get_move, lines 388-429: the result and the clock after it.
alphabeta_get_move(pl, g, clk) ==
    LET st == deepening(pl, g, Loop(Move(NoMove, 0), clk, FALSE), 1, max_depth)
    IN  <<st.best, st.clock>>

---------------------------------------------------------------------------
(* The inputs of the agents.                                               *)

\* The largest search_depth a player is built with.
MaxDepth == 3

\* The most milliseconds a timer starts with.
MaxLeft == 6

\* The cells at which the agent stands: a corner, an edge and the centre.
SelfCells == {<<0, 0>>, <<0, 1>>, <<1, 1>>}

\* Boards on which both players have moved and at most one more cell was
\* visited, with the agent to move.
Games ==
    {[loc |-> <<a, b>>, blocked |-> {a, b} \cup x, active |-> Self,
      shuffled |-> s] :
        <<a, b, x, s>> \in
            {<<a, b, x, s>> \in SelfCells \X Cells \X ({{}} \cup {{c} : c \in Cells})
                                    \X BOOLEAN :
                a # b}}

ScoreFns == {"custom_score", "minus_inf", "zero"}

\* IsolationPlayer.__init__, lines 248-252.
Players ==
    [class : {"MinimaxPlayer", "AlphaBetaPlayer"},
     search_depth : 1..MaxDepth,
     score : ScoreFns,
     TIMER_THRESHOLD : {1}]

\* A timer that never runs out, as a test of minimax and alphabeta passes.
NoTimeout == [left |-> MaxLeft, rate |-> 0]

\* Timers: one millisecond passes between two calls of time_left.
Clocks == {NoTimeout} \cup [left : 0..MaxLeft, rate : {1}]

InitAgent ==
    /\ grid = << >>
    /\ heap = << >>
    /\ stack = << >>
    /\ result = NoResult
    /\ last = NoCall
    /\ history = EmptyHistory
    /\ game \in Games
    /\ player \in Players
    /\ clock \in Clocks
    /\ move = NotCalled
    /\ problem = Idle
    /\ state = Idle

\* player.minimax(game, player.search_depth), with player.time_left set.
Minimax ==
    /\ move = NotCalled
    /\ player.class = "MinimaxPlayer"
    /\ LET r == minimax(player, game, player.search_depth, clock)
       IN  /\ move' = IF r.timeout THEN Raised ELSE Move(r.move, 1)
           /\ clock' = r.clock
    /\ UNCHANGED <<sudoku_vars, game, player, cargo_vars>>

\* player.alphabeta(game, player.search_depth), with player.time_left set.
Alphabeta ==
    /\ move = NotCalled
    /\ player.class = "AlphaBetaPlayer"
    /\ LET r == alphabeta(player, game, player.search_depth, clock)
       IN  /\ move' = IF r.timeout THEN Raised ELSE Move(r.move, 1)
           /\ clock' = r.clock
    /\ UNCHANGED <<sudoku_vars, game, player, cargo_vars>>

\* player.get_move(game, time_left) of a MinimaxPlayer.
MinimaxGetMove ==
    /\ move = NotCalled
    /\ player.class = "MinimaxPlayer"
    /\ LET r == minimax_get_move(player, game, clock)
       IN  /\ move' = r[1]
           /\ clock' = r[2]
    /\ UNCHANGED <<sudoku_vars, game, player, cargo_vars>>

\* player.get_move(game, time_left) of an AlphaBetaPlayer.
AlphaBetaGetMove ==
    /\ move = NotCalled
    /\ player.class = "AlphaBetaPlayer"
    /\ LET r == alphabeta_get_move(player, game, clock)
       IN  /\ move' = r[1]
           /\ clock' = r[2]
    /\ UNCHANGED <<sudoku_vars, game, player, cargo_vars>>

NextSearch ==
    \/ Minimax
    \/ Alphabeta

SpecSearch == InitAgent /\ [][NextSearch]_vars

NextGetMove ==
    \/ MinimaxGetMove
    \/ AlphaBetaGetMove

SpecGetMove == InitAgent /\ [][NextGetMove]_vars

---------------------------------------------------------------------------
\* The legal moves of the game the agent was given.
LegalMoves == Range(get_legal_moves(game, game.active))

(* C19.  When minimax(game, depth) or alphabeta(game, depth), depth >= 1,  *)
(* has returned without a timeout, the move it returned is one of the      *)
(* legal moves of the game if there is any, whatever the score function    *)
(* (also one that scores every successor -inf), and it is (-1, -1) only if *)
(* the game has no legal move.                                             *)
C19_SearchReturnsLegalMove ==
    move.kind = "move" =>
        /\ LegalMoves # {} => move.move \in LegalMoves
        /\ move.move = NoMove => LegalMoves = {}

(* C20.  get_move of either player never lets SearchTimeout out; whenever  *)
(* the timer runs out, it returns a legal move of the game if there is     *)
(* any, and (-1, -1) only if there is none; the move an AlphaBetaPlayer    *)
(* returns is the result of alphabeta at the deepest depth of the          *)
(* iterative deepening that returned before the timeout.                   *)
C20_GetMoveReturnsLegalMove ==
    move.kind # "none" =>
        /\ move.kind = "move"
        /\ LegalMoves # {} => move.move \in LegalMoves
        /\ move.move = NoMove => LegalMoves = {}
        /\ (player.class = "AlphaBetaPlayer" /\ move.completed >= 1) =>
                move.move = alphabeta(player, game, move.completed, NoTimeout).move

---------------------------------------------------------------------------
\* The label of box a comes before the label of box b, or is the same label
\* (row letter first, then column digit).
LabelLeq(a, b) ==
    \/ RowOf(a) < RowOf(b)
    \/ (RowOf(a) = RowOf(b) /\ ColOf(a) <= ColOf(b))

\* The unsolved boxes of a board with the fewest candidates.
SmallestUnsolved(b) ==
    {box \in Boxes :
        /\ len(b[box]) >= 2
        /\ \A other \in Boxes : len(b[other]) >= 2 => len(b[box]) <= len(b[other])}

(* C21.  While search runs the loop over the candidates of the box it chose *)
(* on its reduced board, that box has at least 2 candidates, no unsolved   *)
(* box of the board has fewer, and among the unsolved boxes with as few    *)
(* candidates it is the one whose label comes first.                       *)
C21_BranchOnSmallest ==
    Running("loop") =>
        /\ Top.box \in SmallestUnsolved(Values)
        /\ \A other \in SmallestUnsolved(Values) : LabelLeq(Top.box, other)

\* search has chosen a box while another box has as few candidates.
C21_Witness ==
    /\ Running("loop")
    /\ Cardinality(SmallestUnsolved(Values)) >= 2

---------------------------------------------------------------------------
\* The candidates of the chosen box that the running search has tried.
Tried == Values[Top.box] \ Top.todo

\* The step starts a branch of the running search: a call of search is made.
BranchStarts == stack # << >> /\ Len(stack') = Len(stack) + 1

\* The step ends the running call of search with False.
ReturnsFalse == stack # << >> /\ stack' = Pop /\ result'.kind = "False"

\* What every step of solve must obey for the order of search.
SearchOrderStep ==
    /\ BranchStarts =>
          LET new == stack'[Len(stack')].vals
              v == CHOOSE x \in heap'[new][Top.box] : TRUE
          IN  /\ Running("loop")
              /\ result.kind # "board"
              /\ heap'[new] = [Values EXCEPT ![Top.box] = {v}]
              /\ v \in Top.todo
              /\ Tried = {x \in Values[Top.box] : x < v}
              /\ stack'[Len(stack)].todo = {x \in Values[Top.box] : x > v}
    /\ (Running("wait") /\ Len(stack') = Len(stack)) => result.kind = "False"
    /\ (Running("wait") /\ result.kind = "board") =>
          (stack' = Pop /\ result' = result /\ heap' = heap)
    /\ ReturnsFalse =>
          \/ (Running("loop") /\ Top.todo = {})
          \/ (Running("test") /\ HasEmptyBox(Values) /\ Top.box = 0)
    /\ (Running("test") /\ HasEmptyBox(Values)) => (ReturnsFalse /\ heap' = heap)

(* C22.  Every step of solve obeys the order of search: a branch is        *)
(* started only from the loop, for the smallest candidate of the chosen    *)
(* box that was not tried, when every smaller candidate was tried and no   *)
(* board was returned; the loop goes on to the next candidate only after   *)
(* a branch returned False; when a branch returned a board, search returns *)
(* that board at once, starting no other branch; search returns False      *)
(* only when every candidate was tried, or at once, without having chosen  *)
(* a box, when reduce_puzzle met an empty box.                             *)
C22_AscendingShortCircuit == [][SearchOrderStep]_vars

\* The branch of the second candidate has returned a board after the branch
\* of the first one returned False, and a later candidate is left untried.
C22_Witness ==
    /\ Running("wait") /\ result.kind = "board"
    /\ Cardinality(Tried) = 2
    /\ Top.todo # {}

---------------------------------------------------------------------------
\* The number of boxes of the initial board that are not solved.
InitialUnsolved == Cardinality({box \in Boxes : len(grid2values(grid)[box]) # 1})

\* The loop of reduce_puzzle runs again only if more boxes are solved than
\* before the iteration, and the board a branch of search starts on has more
\* solved boxes than the board the caller reduced.
ProgressStep ==
    /\ (Running("test") /\ Len(stack') = Len(stack) /\ stack'[Len(stack)].pc = "eliminate")
            => num_solved(Values) > Top.before
    /\ BranchStarts => num_solved(heap'[stack'[Len(stack')].vals]) > num_solved(Values)

\* How far an activation of search is from its end, as a number that every
\* step of the activation makes smaller: the iterations of reduce_puzzle
\* come first, counted by the boxes not solved when the iteration began and
\* the place in the iteration; then the test of line 313; then the loop of
\* line 321, counted by the candidates left, a branch that is awaited
\* counting more than the return to the loop that follows it.
FrameRank(h, f) ==
    CASE f.pc = "eliminate"   -> 30 + 5 * (Len(boxes) - num_solved(h[f.vals])) + 4
      [] f.pc = "only_choice" -> 30 + 5 * (Len(boxes) - f.before) + 3
      [] f.pc = "naked_twins" -> 30 + 5 * (Len(boxes) - f.before) + 2
      [] f.pc = "test"        -> 30 + 5 * (Len(boxes) - f.before) + 1
      [] f.pc = "check"       -> 21
      [] f.pc = "wait"        -> 2 * Cardinality(f.todo) + 2
      [] f.pc = "loop"        -> 2 * Cardinality(f.todo) + 1

\* The ranks of the activations, the outermost first.
Ranks(h, s) == [k \in 1..Len(s) |-> FrameRank(h, s[k])]

\* The sequence of numbers a comes before b: a is a proper prefix of b, or
\* a is smaller at the first place where they differ.
RanksLess(a, b) ==
    \/ (Len(a) < Len(b) /\ \A k \in 1..Len(a) : a[k] = b[k])
    \/ \E k \in 1..Min(Len(a), Len(b)) :
          /\ a[k] < b[k]
          /\ \A m \in 1..(k - 1) : a[m] = b[m]

\* A step of solve after its first one brings the activations nearer to
\* their end.
VariantStep == stack # << >> => RanksLess(Ranks(heap', stack'), Ranks(heap, stack))

\* solve has not returned and can take a step.
CanStep ==
    \/ (stack = << >> /\ heap = << >> /\ result = NoResult)
    \/ Running("eliminate")
    \/ Running("only_choice")
    \/ Running("naked_twins")
    \/ Running("test")
    \/ Running("check")
    \/ (Running("loop"))
    \/ (Running("wait") /\ result.kind \in {"board", "False"})

(* C23.  On a well-formed grid solve comes to an end: as long as it has    *)
(* not returned it can take a step, and every step brings its activations  *)
(* nearer to their end in an order without infinite descent; each          *)
(* iteration of reduce_puzzle that is followed by another one has solved   *)
(* more boxes, each recursive call of search gets a board with more solved *)
(* boxes than the board its caller reduced, and the calls of search nested *)
(* inside the first one are never more than the unsolved boxes of the      *)
(* initial board.                                                          *)
C23_Terminates ==
    /\ [](WellFormed(grid) /\ ~Returned => CanStep)
    /\ [][WellFormed(grid) => VariantStep /\ ProgressStep]_vars
    /\ [](WellFormed(grid) /\ stack # << >> => Len(stack) - 1 <= InitialUnsolved)

\* solve has returned on a well-formed grid after search branched twice.
C23_Witness ==
    /\ WellFormed(grid) /\ Returned
    /\ Len(heap) >= 3

---------------------------------------------------------------------------
\* Board b holds, in every box that is solved on board a and on b, the digit
\* it holds on a.
SameDigits(a, b) ==
    \A box \in DOMAIN a \cap DOMAIN b :
        (len(a[box]) = 1 /\ len(b[box]) = 1) => b[box] = a[box]

\* No step puts another digit into a solved box: not in a dict that the step
\* works on, and not in the copy on which a branch of search starts.
KeepsDigits ==
    /\ \A ref \in 1..Min(Len(heap), Len(heap')) : SameDigits(heap[ref], heap'[ref])
    /\ BranchStarts => SameDigits(Values, heap'[stack'[Len(stack')].vals])

(* C24.  Whenever solve returns a board, every box whose character in the  *)
(* grid is a digit '1'..'9' holds exactly that digit in the board; and no  *)
(* step of a reducer or of search replaces the digit of a solved box by    *)
(* another digit.                                                          *)
C24_CluesPreserved ==
    /\ [](ReturnedBoard =>
            \A k \in 1..Min(Len(grid), Len(boxes)) :
                grid[k] \in AllDigits => Board[boxes[k]] = {grid[k]})
    /\ [][KeepsDigits]_vars

\* solve has returned, from a branch of the search, a board for a grid with
\* clues.
C24_Witness ==
    /\ ReturnedBoard /\ result.ref > 1
    /\ \E k \in 1..Len(grid) : grid[k] \in AllDigits

---------------------------------------------------------------------------
\* A timer with time for every search of the model, which counts the calls
\* of time_left: each call of mm or ab makes one.
Counting == [left |-> 1000, rate |-> 1]

\* The calls of time_left that a search made on the timer Counting.
Calls(r) == Counting.left - r.clock.left

(* C25.  When alphabeta(game, depth), depth >= 1, has returned without a   *)
(* timeout, its move is the move that minimax(game, depth) returns on the  *)
(* same game with the same score function, and, if the game has a legal    *)
(* move, the score that ab computes at the root with alpha = -inf and      *)
(* beta = inf is the score that mm computes at the root.                   *)
C25_AlphaBetaIsMinimax ==
    (move.kind = "move" /\ player.class = "AlphaBetaPlayer") =>
        LET depth == player.search_depth
        IN  /\ move.move = minimax(player, game, depth, NoTimeout).move
            /\ LegalMoves # {} =>
                  ab(player, game, depth, -inf, inf, TRUE, NoTimeout).score
                      = mm(player, game, depth, TRUE, NoTimeout).score

\* alphabeta has returned a move after a search at depth 3 in which ab left
\* out positions that mm visits.
C25_Witness ==
    /\ move.kind = "move" /\ player.class = "AlphaBetaPlayer"
    /\ player.search_depth = 3
    /\ move.move # NoMove
    /\ Calls(ab(player, game, 3, -inf, inf, TRUE, Counting))
          < Calls(mm(player, game, 3, TRUE, Counting))

---------------------------------------------------------------------------
(* The air cargo planning problems of project_03                           *)
(* (my_air_cargo_problems.py).                                             *)
(*                                                                         *)
(* Encoding.  A cargo, a plane or an airport is its name.  The fluent      *)
(* At(x, a) is <<"At", x, a>> and In(c, p) is <<"In", c, p>>.  A state     *)
(* string of 'T' and 'F', one character per fluent of state_map, is the    *)
(* set of the fluents of state_map that it marks 'T'.  An Action object is *)
(* a record of its name and its four lists of fluents, each as a set.      *)

At(x, a) == <<"At", x, a>>

In(c, p) == <<"In", c, p>>

\* Action(name, [precond_pos, precond_neg], [effect_add, effect_rem]).
Action(name, precond_pos, precond_neg, effect_add, effect_rem) ==
    [name |-> name, precond_pos |-> precond_pos, precond_neg |-> precond_neg,
     effect_add |-> effect_add, effect_rem |-> effect_rem]

\* A faulty load_actions whose actions do not remove At(c, a).
load_actions_keep_at(cargos, planes, airports) ==
    {Action(<<"Load", c, p, a>>, {At(c, a), At(p, a)}, {}, {In(c, p)}, {}) :
        <<a, p, c>> \in airports \X planes \X cargos}

\* load_actions, lines 57-76.
load_actions(cargos, planes, airports) ==
    {Action(<<"Load", c, p, a>>, {At(c, a), At(p, a)}, {}, {In(c, p)}, {At(c, a)}) :
        <<a, p, c>> \in airports \X planes \X cargos}

\* unload_actions, lines 83-102.
unload_actions(cargos, planes, airports) ==
    {Action(<<"Unload", c, p, a>>, {In(c, p), At(p, a)}, {}, {At(c, a)}, {In(c, p)}) :
        <<a, p, c>> \in airports \X planes \X cargos}

\* fly_actions, lines 109-128.
fly_actions(planes, airports) ==
    {Action(<<"Fly", p, fr, to>>, {At(p, fr)}, {}, {At(p, to)}, {At(p, fr)}) :
        <<fr, to, p>> \in {x \in airports \X airports \X planes : x[1] # x[2]}}

\* get_actions, lines 39-130.
get_actions(pb) ==
    load_actions(pb.cargos, pb.planes, pb.airports)
        \cup unload_actions(pb.cargos, pb.planes, pb.airports)
        \cup fly_actions(pb.planes, pb.airports)

\* encode_state(fs, state_map): 'T' for the fluents of state_map that are in
\* fs.pos; a fluent that state_map does not list has no character.
encode_state(pos, state_map) == pos \cap state_map

\* decode_state(state, state_map): pos are the fluents marked 'T' and neg the
\* other fluents of state_map.
decode_state(s, state_map) == [pos |-> s, neg |-> state_map \ s]

\* AirCargoProblem.__init__, lines 15-36, for FluentState(pos, neg).
AirCargoProblem(cargos, planes, airports, pos, neg) ==
    [cargos |-> cargos, planes |-> planes, airports |-> airports,
     state_map |-> pos \cup neg,
     initial_state_TF |-> encode_state(pos, pos \cup neg)]

\* AirCargoProblem.actions, lines 133-147.
actions(pb, s) ==
    LET curr_state == decode_state(s, pb.state_map)
    IN  {action \in get_actions(pb) :
            /\ action.precond_pos \subseteq curr_state.pos
            /\ action.precond_neg \subseteq curr_state.neg}

\* Action.act(kb, args) on the clauses kb: the clauses of effect_rem are
\* retracted and those of effect_add are told.
act(action, clauses) == (clauses \ action.effect_rem) \cup action.effect_add

\* AirCargoProblem.result, lines 150-165.
result_of(pb, s, action) ==
    LET kb == decode_state(s, pb.state_map).pos
        next_state == act(action, kb)
    IN  encode_state(next_state, pb.state_map)

\* The fluents At(x, a) and In(c, p) over the objects of a problem that are
\* not in pos.
OtherFluents(cargos, planes, airports, pos) ==
    ({At(x, a) : <<x, a>> \in (cargos \cup planes) \X airports}
        \cup {In(c, p) : <<c, p>> \in cargos \X planes}) \ pos

\* air_cargo_p1, lines 226-248.
air_cargo_p1 ==
    LET cargos == {"C1", "C2"}
        planes == {"P1", "P2"}
        airports == {"JFK", "SFO"}
        pos == {At("C1", "SFO"), At("C2", "JFK"), At("P1", "SFO"), At("P2", "JFK")}
    IN  AirCargoProblem(cargos, planes, airports, pos,
                        OtherFluents(cargos, planes, airports, pos))

\* air_cargo_p2, lines 259-297.
air_cargo_p2 ==
    LET cargos == {"C1", "C2", "C3"}
        planes == {"P1", "P2", "P3"}
        airports == {"ATL", "JFK", "SFO"}
        pos == {At("C1", "SFO"), At("C2", "JFK"), At("C3", "ATL"),
                At("P1", "SFO"), At("P2", "JFK"), At("P3", "ATL")}
    IN  AirCargoProblem(cargos, planes, airports, pos,
                        OtherFluents(cargos, planes, airports, pos))

\* air_cargo_p3, lines 308-352.
air_cargo_p3 ==
    LET cargos == {"C1", "C2", "C3", "C4"}
        planes == {"P1", "P2"}
        airports == {"ATL", "JFK", "ORD", "SFO"}
        pos == {At("C1", "SFO"), At("C2", "JFK"), At("C3", "ATL"), At("C4", "ORD"),
                At("P1", "SFO"), At("P2", "JFK")}
    IN  AirCargoProblem(cargos, planes, airports, pos,
                        OtherFluents(cargos, planes, airports, pos))

InitCargo ==
    /\ grid = << >>
    /\ heap = << >>
    /\ stack = << >>
    /\ result = NoResult
    /\ last = NoCall
    /\ history = EmptyHistory
    /\ game = Idle
    /\ player = Idle
    /\ clock = Idle
    /\ move = Idle
    /\ problem \in {air_cargo_p1, air_cargo_p2, air_cargo_p3}
    /\ state = problem.initial_state_TF

\* state := problem.result(state, a) for an action a of problem.actions(state)
\* of the kind named.
Apply(kind) ==
    /\ \E a \in actions(problem, state) :
          /\ a.name[1] = kind
          /\ state' = result_of(problem, state, a)
    /\ UNCHANGED <<sudoku_vars, agent_vars, problem>>

Load == Apply("Load")

Unload == Apply("Unload")

Fly == Apply("Fly")

NextCargo ==
    \/ Load
    \/ Unload
    \/ Fly

SpecCargo == InitCargo /\ [][NextCargo]_vars

---------------------------------------------------------------------------
\* The airports at which x is, and the planes in which cargo c is.
AirportsOf(x) == {a \in problem.airports : At(x, a) \in state}

PlanesOf(c) == {p \in problem.planes : In(c, p) \in state}

(* C26.  In every state reached from the initial state of air_cargo_p1,    *)
(* air_cargo_p2 or air_cargo_p3 by result(state, a) with a in              *)
(* actions(state), every plane is At exactly one airport, and every cargo  *)
(* is At exactly one airport and In no plane, or In exactly one plane and  *)
(* At no airport.                                                          *)
C26_CargoInvariant ==
    /\ \A p \in problem.planes : Cardinality(AirportsOf(p)) = 1
    /\ \A c \in problem.cargos :
          Cardinality(AirportsOf(c)) + Cardinality(PlanesOf(c)) = 1

\* A cargo is in a plane that has flown to another airport, while another
\* cargo was unloaded at an airport where it did not start.
C26_Witness ==
    /\ \E c \in problem.cargos : \E p \in problem.planes :
          /\ In(c, p) \in state
          /\ AirportsOf(p) \cap {a \in problem.airports :
                                    At(p, a) \in problem.initial_state_TF} = {}
    /\ \E c \in problem.cargos :
          /\ AirportsOf(c) # {}
          /\ AirportsOf(c) \cap {a \in problem.airports :
                                    At(c, a) \in problem.initial_state_TF} = {}

===========================================================================
